---- MODULE Spec2Model ----
(***************************************************************************)
(* PFERD crawl engine: Crawler.run(), the noncritical/anoncritical         *)
(* wrappers, Crawler.gather(), Crawler.crawl()/download() and the          *)
(* CrawlToken/DownloadToken scopes (src/PFERD/crawl/crawler.py).           *)
(*                                                                         *)
(* Limiter, Transformer, Report, OutputDirectory, FileSink and             *)
(* ReusableAsyncContextManager are imported by crawler.py but their        *)
(* modules are not among the sources; they are modelled from spec.md.      *)
(*                                                                         *)
(* The strategy's _run() is one Crawler.gather over NumTasks leaf          *)
(* operations, each wrapped by anoncritical; a leaf operation asks         *)
(* crawl() or download() for a token and uses it. A step of a task runs    *)
(* from one suspension to the next: entering a token is one step unless    *)
(* the limiter has no free slot, leaving it is one step. The limiter's     *)
(* pacing delay is left out: it moves acquisitions in time, not in number. *)
(*                                                                         *)
(* Spec is one run of a constructed crawler. SpecConfig constructs the     *)
(* crawler from its configuration section (CrawlerSection,                 *)
(* Crawler.__init__). SpecRuns is run after run on one output directory    *)
(* with a strategy that downloads what an unchanged remote holds. SpecAuth *)
(* is the SimpleAuthenticator (src/PFERD/authenticators/simple.py) with    *)
(* the prompts of src/PFERD/utils.py, used by several tasks at once.       *)
(***************************************************************************)
EXTENDS Integers, Sequences, FiniteSets, TLC

\* ---------------------------------------------------------------- bounds
NumTasks == 2      \* awaitables handed to Crawler.gather by the strategy
MaxLimit == 2      \* largest configured max_concurrent_tasks
MaxEntries == 2    \* how often a strategy enters one token instance
TotalChunks == 1   \* chunks the remote resource of a download consists of
MaxMtime == 1      \* modification times 1..MaxMtime
MaxDelay == 1      \* largest configured delay_between_tasks
MaxRuns == 2       \* consecutive runs on one output directory
NumCallers == 2    \* tasks that ask the authenticator for credentials
MaxCalls == 3      \* credentials() calls made on one authenticator

Tasks == 1..NumTasks

\* ------------------------------------------------------------ exceptions
NoExc == "none"
\* the except clause of noncritical / anoncritical
Recoverable == {"CrawlWarning", "OutputDirError", "MarkDuplicateError", "MarkConflictError"}
\* everything else lands in the bare except
Fatal == {"CrawlError", "RuntimeError", "CancelledError"}
\* what the body of a leaf operation raises while it holds its token
BodyExceptions == {"CrawlWarning", "CrawlError"}
\* what a leaf operation raises outside of a token scope
LeafExceptions == Recoverable \cup {"CrawlError"}

\* a wrapper that sets error_free again when the wrapped call succeeds
WrapperErrorFreeReset(ef, e) == e = NoExc

\* the wrapper: error_free after the wrapped call ended with exception e
WrapperErrorFree(ef, e) == IF e = NoExc THEN ef ELSE FALSE
\* a wrapper whose except clause catches nothing
WrapperReraisesAll(e) == e # NoExc

\* a wrapper that swallows whatever the wrapped call raises
WrapperReraisesNone(e) == FALSE

\* the wrapper: does the exception leave the wrapper
WrapperReraises(e) == e # NoExc /\ e \notin Recoverable

\* ----------------------------------------------------------- transformer
Paths == {"a", "b", "c", "x"}
Excluded == "<excluded>"
\* ordered rules: the first rule whose match equals the path decides
Rules == << [match |-> "x", result |-> Excluded],
            [match |-> "a", result |-> "c"] >>

RECURSIVE ApplyRules(_, _)
ApplyRules(i, p) ==
    IF i > Len(Rules) THEN p
    ELSE IF Rules[i].match = p THEN Rules[i].result
    ELSE ApplyRules(i + 1, p)

Transform(p) == ApplyRules(1, p)


\* ------------------------------------------------------ output directory
NoEntry == -1                  \* the Report has no entry for the path
NoMtime == 0                   \* download() was called without mtime
Mtimes == 0..MaxMtime
Entries == {NoEntry} \cup Mtimes
EmptyReport == [p \in Paths |-> NoEntry]

Redownloads == {"never", "never-smart", "always", "always-smart"}
OnConflicts == {"prompt", "overwrite", "skip"}
NoOverride == "default"
\* CrawlerSection.redownload / on_conflict: the values of an empty section
DefaultRedownload == "never-smart"
DefaultOnConflict == "prompt"

EffectiveRedownload(rd) == IF rd = NoOverride THEN DefaultRedownload ELSE rd
EffectiveOnConflict(oc) == IF oc = NoOverride THEN DefaultOnConflict ELSE oc

VARIABLES
    cfg,          \* the Limiter's limits: [tasks |-> N_t, downloads |-> N_d]
    taskFree,     \* free slots of the Limiter's task pool
    dlFree,       \* free slots of the Limiter's download pool
    runpc,        \* position of Crawler.run()
    error_free,   \* Crawler.error_free
    report,       \* OutputDirectory.report: path -> recorded mtime or NoEntry
    conflicts,    \* paths of the current Report carrying a conflict marking
    prev_report,  \* OutputDirectory.prev_report
    stored,       \* the persisted Report
    local,        \* the local files: path -> content
    task,         \* the leaf operations the strategy hands to gather
    gather,       \* Crawler.gather: idle, pending, failed, raised, returned
    cleanupRan,   \* OutputDirectory.cleanup() was executed in this run
    deleted,      \* local files deleted in this run
    storeRan,     \* OutputDirectory.store_report() was executed in this run
    released,     \* the stack entries the token scope that ended last has exited, in order
    section,      \* the raw options of the crawler's configuration section
    built,        \* Crawler.__init__: pending, built or error, the rejected option, the delay
    runNo,        \* which run of the crawler on this output directory this one is
    plan,         \* the remote as the strategy finds it: the download of each leaf operation
    authSection,  \* SimpleAuthSection: the configured username and password
    auth,         \* SimpleAuthenticator: _username, _password and the two fixed flags
    lock,         \* conductor.exclusive_output(): the caller inside it, 0 if none
    caller,       \* the credentials() call of each task: position and returned pair
    calls,        \* credentials() calls started so far
    prompts,      \* how often each value was prompted for since it was last missing
    lastInv,      \* the invalidate call made last and whether it raised
    stale         \* values whose invalidation was asked for since they were entered

authVars == << authSection, auth, lock, caller, calls, prompts, lastInv, stale >>

vars == << cfg, taskFree, dlFree, runpc, error_free, report, conflicts, prev_report,
           stored, local, task, gather, cleanupRan, deleted, storeRan, released,
           section, built, runNo, plan, authVars >>

\* what the authenticator leaves alone
crawlVars == << cfg, taskFree, dlFree, runpc, error_free, report, conflicts, prev_report,
                stored, local, task, gather, cleanupRan, deleted, storeRan, released,
                section, built, runNo, plan >>

\* what one run of a constructed crawler leaves alone
otherVars == << section, built, runNo, plan, authVars >>

limiterVars == << taskFree, dlFree >>
runVars == << runpc, cleanupRan, deleted, storeRan, stored, prev_report >>
dirVars == << report, conflicts, local >>

Contents == {"absent", "old", "partial", "new"}

\* a leaf operation that has not started
NewTask == [ pc |-> "new", kind |-> "-", path |-> "-", res |-> "-", active |-> FALSE,
             stack |-> << >>, staged |-> -1, entries |-> 0, exc |-> NoExc,
             cancelReq |-> FALSE ]

\* OutputDirectory.download, step 1: the path is already recorded in this run
IsDuplicate(tp) == report[tp] # NoEntry

\* OutputDirectory.download, steps 2-5: approve, decline or prompt
Decision(tp, mtime, rd, oc) ==
    IF local[tp] = "absent" THEN "approve"
    ELSE IF prev_report[tp] # NoEntry
    THEN CASE EffectiveRedownload(rd) = "never" -> "decline"
           [] EffectiveRedownload(rd) = "never-smart" ->
                  IF mtime # NoMtime /\ mtime > prev_report[tp] THEN "approve" ELSE "decline"
           [] EffectiveRedownload(rd) = "always" -> "approve"
           [] OTHER -> IF mtime # prev_report[tp] THEN "approve" ELSE "decline"
    ELSE CASE EffectiveOnConflict(oc) = "prompt" -> "prompt"
           [] EffectiveOnConflict(oc) = "overwrite" -> "approve"
           [] OTHER -> "decline"

\* the local content is not explained by the previous Report
IsConflict(tp) == local[tp] # "absent" /\ prev_report[tp] = NoEntry

\* crawl() that forgets to ask the transformer
CrawlResultAlways(p) == "token"

\* Crawler.crawl: none for an excluded path, else a CrawlToken
CrawlResult(p) == IF Transform(p) = Excluded THEN "none" ELSE "token"

\* download() that hands the untransformed path on
DownloadDestUntransformed(p) == IF Transform(p) = Excluded THEN Excluded ELSE p

\* download() that does not ask the transformer at all
DownloadDestIdentity(p) == p

\* Crawler.download: the transformed_path it hands to OutputDirectory.download
DownloadDest(p) == Transform(p)

\* Crawler.download: none, token, prompt (suspended in the conflict prompt) or
\* dup (OutputDirectory.download raised MarkDuplicateError, nothing catches it here)
DownloadResult(p, mtime, rd, oc) ==
    IF DownloadDest(p) = Excluded THEN "none"
    ELSE IF IsDuplicate(DownloadDest(p)) THEN "dup"
    ELSE CASE Decision(DownloadDest(p), mtime, rd, oc) = "approve" -> "token"
           [] Decision(DownloadDest(p), mtime, rd, oc) = "prompt" -> "prompt"
           [] OTHER -> "none"


\* ------------------------------------------------------ CrawlerSection
\* the option is not in the section
Absent == -1000

\* the sections the configuration file may hold for the three limiter options
Sections == [ max_concurrent_tasks : {Absent} \cup (-1..MaxLimit),
              max_concurrent_downloads : {Absent} \cup (-1..(MaxLimit + 1)),
              delay_between_tasks : {Absent} \cup (-1..MaxDelay) ]

\* SectionProxy.getint / getfloat with a fallback
GetOption(value, fallback) == IF value = Absent THEN fallback ELSE value

\* what a getter of the section ends with: its value, or invalid_value raising
Valid(v) == [ok |-> TRUE, value |-> v, option |-> "-"]
InvalidValue(opt) == [ok |-> FALSE, value |-> Absent, option |-> opt]

MaxConcurrentTasks(sec) ==
    LET value == GetOption(sec.max_concurrent_tasks, 1)
    IN  IF value <= 0 THEN InvalidValue("max_concurrent_tasks") ELSE Valid(value)

\* max_concurrent_downloads() that does not compare with max_concurrent_tasks
MaxConcurrentDownloadsUnbounded(sec) ==
    LET tasks == MaxConcurrentTasks(sec)
        value == GetOption(sec.max_concurrent_downloads, Absent)
    IN  IF ~tasks.ok THEN tasks
        ELSE IF value = Absent THEN Valid(tasks.value)
        ELSE IF value <= 0 THEN InvalidValue("max_concurrent_downloads")
        ELSE Valid(value)

MaxConcurrentDownloads(sec) ==
    LET tasks == MaxConcurrentTasks(sec)
        value == GetOption(sec.max_concurrent_downloads, Absent)
    IN  IF ~tasks.ok THEN tasks
        ELSE IF value = Absent THEN Valid(tasks.value)
        ELSE IF value <= 0 THEN InvalidValue("max_concurrent_downloads")
        ELSE IF value > tasks.value THEN InvalidValue("max_concurrent_downloads")
        ELSE Valid(value)

DelayBetweenTasks(sec) ==
    LET value == GetOption(sec.delay_between_tasks, 0)
    IN  IF value < 0 THEN InvalidValue("delay_between_tasks") ELSE Valid(value)

\* no Limiter yet
NoLimiter == [tasks |-> 0, downloads |-> 0]
Pending == [state |-> "pending", option |-> "-", task_delay |-> 0]
Built(delay) == [state |-> "built", option |-> "-", task_delay |-> delay]
Rejected(opt) == [state |-> "error", option |-> opt, task_delay |-> 0]

\* ------------------------------------------------------------------ Init
\* the crawler is constructed already, its section is not looked at again
NoSection == "-"
\* the strategy is free in what it asks for
NoPlan == "-"

Limits == { c \in [tasks : 1..MaxLimit, downloads : 1..MaxLimit] : c.downloads <= c.tasks }

\* what an earlier run left behind: either a file at b that the persisted Report
\* lists and a file at c that it does not explain, or nothing at b and a file at
\* c that it lists
Worlds ==
    { [ stored |-> [p \in Paths |-> IF p = (IF bKnown THEN "b" ELSE "c") THEN 1 ELSE NoEntry],
        local |-> [p \in Paths |-> IF p = "c" \/ (p = "b" /\ bKnown) THEN "old" ELSE "absent"] ]
      : bKnown \in BOOLEAN }

\* an output directory nothing was ever downloaded to
FreshWorld == [ stored |-> EmptyReport, local |-> [p \in Paths |-> "absent"] ]

\* no authenticator is looked at
NoAuth ==
    /\ authSection = "-"
    /\ auth = "-"
    /\ lock = 0
    /\ caller = "-"
    /\ calls = 0
    /\ prompts = "-"
    /\ lastInv = "-"
    /\ stale = {}

\* a crawler that has not run yet
InitRun ==
    /\ runpc = "start"
    /\ error_free = TRUE
    /\ report = EmptyReport
    /\ conflicts = {}
    /\ prev_report = EmptyReport
    /\ task = [t \in Tasks |-> NewTask]
    /\ gather = "idle"
    /\ cleanupRan = FALSE
    /\ deleted = {}
    /\ storeRan = FALSE
    /\ released = << >>
    /\ runNo = 1

Init ==
    /\ cfg \in Limits
    /\ taskFree = cfg.tasks
    /\ dlFree = cfg.downloads
    /\ section = NoSection
    /\ built = Built(0)
    /\ plan = NoPlan
    /\ \E w \in Worlds : stored = w.stored /\ local = w.local
    /\ InitRun
    /\ NoAuth

\* ------------------------------------------------------ Crawler.__init__
\* the Limiter is built from the section's three options, read in this order;
\* the first getter that raises ends the construction
Construct ==
    /\ built.state = "pending"
    /\ LET tasks == MaxConcurrentTasks(section)
           downloads == MaxConcurrentDownloads(section)
           delay == DelayBetweenTasks(section)
       IN  IF ~tasks.ok THEN /\ built' = Rejected(tasks.option)
                             /\ UNCHANGED << cfg, limiterVars >>
           ELSE IF ~downloads.ok THEN /\ built' = Rejected(downloads.option)
                                      /\ UNCHANGED << cfg, limiterVars >>
           ELSE IF ~delay.ok THEN /\ built' = Rejected(delay.option)
                                  /\ UNCHANGED << cfg, limiterVars >>
           ELSE /\ built' = Built(delay.value)
                /\ cfg' = [tasks |-> tasks.value, downloads |-> downloads.value]
                /\ taskFree' = tasks.value
                /\ dlFree' = downloads.value
    /\ UNCHANGED << section, runNo, plan, authVars, released, runVars, dirVars,
                    error_free, task, gather >>

\* ---------------------------------------------------------- Crawler.run
\* self._output_dir.prepare()
Prepare ==
    /\ built.state = "built"
    /\ runpc = "start"
    /\ runpc' = "prepared"
    /\ report' = EmptyReport
    /\ conflicts' = {}
    /\ UNCHANGED << cfg, otherVars, released, limiterVars,
                    error_free, prev_report, stored, local, task, gather,
                    cleanupRan, deleted, storeRan >>

\* self._output_dir.load_prev_report()
LoadPrevReport ==
    /\ runpc = "prepared"
    /\ runpc' = "loaded"
    /\ prev_report' = stored
    /\ UNCHANGED << cfg, otherVars, released, limiterVars,
                    error_free, dirVars, stored, task, gather,
                    cleanupRan, deleted, storeRan >>

\* run() that starts the strategy before the previous Report is loaded
RunStartEarly ==
    /\ runpc = "prepared"
    /\ runpc' = "running"
    /\ gather' = "pending"
    /\ UNCHANGED << cfg, otherVars, released, limiterVars,
                    error_free, dirVars, prev_report, stored, task,
                    cleanupRan, deleted, storeRan >>

\* await self._run(): the strategy hands its leaf operations to Crawler.gather,
\* which wraps each in a task (asyncio.ensure_future) and awaits asyncio.gather
RunStart ==
    /\ runpc = "loaded"
    /\ runpc' = "running"
    /\ gather' = "pending"
    /\ UNCHANGED << cfg, otherVars, released, limiterVars,
                    error_free, dirVars, prev_report, stored, task,
                    cleanupRan, deleted, storeRan >>

\* the paths OutputDirectory.cleanup deletes
Stale == { p \in Paths : prev_report[p] # NoEntry /\ report[p] = NoEntry }

\* _cleanup() that does not look at error_free
CleanupAlways(ef) == TRUE

\* Crawler._cleanup: is OutputDirectory.cleanup() called
CleanupDecision(ef) == ef

\* await self._cleanup()
Cleanup ==
    /\ runpc = "cleanup"
    /\ runpc' = "store"
    /\ IF CleanupDecision(error_free)
       THEN /\ cleanupRan' = TRUE
            /\ deleted' = { p \in Stale : local[p] # "absent" }
            /\ local' = [p \in Paths |-> IF p \in Stale THEN "absent" ELSE local[p]]
       ELSE UNCHANGED << cleanupRan, deleted, local >>
    /\ UNCHANGED << cfg, otherVars, released, limiterVars,
                    error_free, report, conflicts, prev_report, stored,
                    task, gather, storeRan >>

\* run() that ends without storing the Report
StoreReportSkipped ==
    /\ runpc = "store"
    /\ runpc' = "done"
    /\ UNCHANGED << cfg, otherVars, released, limiterVars,
                    error_free, dirVars, prev_report, stored, task,
                    gather, cleanupRan, deleted, storeRan >>

\* self._output_dir.store_report()
StoreReport ==
    /\ runpc = "store"
    /\ runpc' = "done"
    /\ stored' = report
    /\ storeRan' = TRUE
    /\ UNCHANGED << cfg, otherVars, released, limiterVars,
                    error_free, dirVars, prev_report, task, gather,
                    cleanupRan, deleted >>

\* ------------------------------------------------------- Crawler.gather
AllDone == \A t \in Tasks : task[t].pc = "done"

\* return await result: every task returned
GatherReturn ==
    /\ gather = "pending"
    /\ runpc = "running"
    /\ AllDone
    /\ gather' = "returned"
    /\ runpc' = "cleanup"
    /\ UNCHANGED << cfg, otherVars, released, limiterVars,
                    error_free, dirVars, prev_report, stored, task,
                    cleanupRan, deleted, storeRan >>

\* gather that re-raises without cancelling
CancelTaskForgotten(r) == r

\* gather's except clause, per task: task.cancel() of a finished task does nothing
CancelTask(r) == IF r.pc = "done" THEN r ELSE [r EXCEPT !.cancelReq = TRUE]

\* except: for task in tasks: task.cancel(); raise -- the failure leaves
\* gather, _run and run
GatherRaise ==
    /\ gather = "failed"
    /\ runpc = "running"
    /\ gather' = "raised"
    /\ runpc' = "aborted"
    /\ task' = [t \in Tasks |-> CancelTask(task[t])]
    /\ UNCHANGED << cfg, otherVars, released, limiterVars, error_free, dirVars, prev_report, stored,
                    cleanupRan, deleted, storeRan >>

\* ------------------------------------------------ the wrapped leaf operation
Started == gather # "idle"
Runnable(t) == Started /\ task[t].pc # "done" /\ ~task[t].cancelReq

\* the wrapped function ended (e = NoExc: it returned): noncritical/anoncritical
LeafEnds(t, r, e) ==
    /\ task' = [task EXCEPT ![t] = [r EXCEPT !.pc = "done", !.exc = e, !.active = FALSE,
                                             !.stack = << >>, !.staged = -1,
                                             !.entries = 0, !.cancelReq = FALSE]]
    /\ error_free' = WrapperErrorFree(error_free, e)
    /\ gather' = IF WrapperReraises(e) /\ gather = "pending" THEN "failed" ELSE gather

\* the token's scope ended with its stack unwound
ScopeEnds(t, r, e) ==
    IF e = NoExc
    THEN /\ task' = [task EXCEPT ![t] = [r EXCEPT !.pc = "exited", !.active = FALSE,
                                                  !.exc = NoExc, !.staged = -1]]
         /\ UNCHANGED << error_free, gather >>
    ELSE LeafEnds(t, r, e)

\* await self.crawl(path)
DecideCrawl(t) ==
    /\ Runnable(t)
    /\ task[t].pc = "new"
    /\ \E p \in Paths :
        LET r == [task[t] EXCEPT !.kind = "crawl", !.path = p, !.res = CrawlResult(p)]
        IN  IF CrawlResult(p) = "token"
            THEN /\ task' = [task EXCEPT ![t] = [r EXCEPT !.pc = "token"]]
                 /\ UNCHANGED << error_free, gather >>
            ELSE LeafEnds(t, r, NoExc)
    /\ UNCHANGED << cfg, otherVars, released, limiterVars, runVars, dirVars >>

\* Crawler.download(p, mtime, rd, oc) called by leaf operation t
DownloadCall(t, p, mtime, rd, oc) ==
    LET res == DownloadResult(p, mtime, rd, oc)
        tp == DownloadDest(p)
        r == [task[t] EXCEPT !.kind = "download", !.path = p, !.res = res]
        marked == tp # Excluded /\ res # "dup"
    IN  /\ report' = IF marked THEN [report EXCEPT ![tp] = mtime] ELSE report
        /\ conflicts' = IF marked /\ IsConflict(tp) THEN conflicts \cup {tp}
                        ELSE conflicts
        /\ CASE res = "token" ->
                  /\ task' = [task EXCEPT ![t] = [r EXCEPT !.pc = "token"]]
                  /\ UNCHANGED << error_free, gather >>
             [] res = "prompt" ->
                  /\ task' = [task EXCEPT ![t] = [r EXCEPT !.pc = "prompt"]]
                  /\ UNCHANGED << error_free, gather >>
             [] res = "dup" -> LeafEnds(t, r, "MarkDuplicateError")
             [] OTHER -> LeafEnds(t, r, NoExc)

\* await self.download(path, mtime, redownload, on_conflict)
DecideDownload(t) ==
    /\ Runnable(t)
    /\ task[t].pc = "new"
    /\ \E p \in Paths, mtime \in Mtimes, rd \in Redownloads \cup {NoOverride},
          oc \in OnConflicts \cup {NoOverride} : DownloadCall(t, p, mtime, rd, oc)
    /\ UNCHANGED << cfg, otherVars, released, limiterVars, runVars, local >>

\* the strategy downloads what it finds on the remote, leaving the redownload
\* policy at never-smart
PlannedDownload(t) ==
    /\ Runnable(t)
    /\ task[t].pc = "new"
    /\ \E rd \in {NoOverride, "never-smart"}, oc \in OnConflicts \cup {NoOverride} :
          DownloadCall(t, plan[t].path, plan[t].mtime, rd, oc)
    /\ UNCHANGED << cfg, otherVars, released, limiterVars, runVars, local >>

\* the user answers the conflict prompt of OutputDirectory.download
PromptAnswer(t) ==
    /\ Runnable(t)
    /\ task[t].pc = "prompt"
    /\ \E yes \in BOOLEAN :
        IF yes
        THEN /\ task' = [task EXCEPT ![t] = [@ EXCEPT !.pc = "token", !.res = "token"]]
             /\ UNCHANGED << error_free, gather >>
        ELSE LeafEnds(t, [task[t] EXCEPT !.res = "none"], NoExc)
    /\ UNCHANGED << cfg, otherVars, released, limiterVars, runVars, dirVars >>

\* the leaf operation raises outside of a token scope
LeafFail(t) ==
    /\ Runnable(t)
    /\ task[t].pc \in {"token", "exited"}
    /\ \E e \in LeafExceptions : LeafEnds(t, task[t], e)
    /\ UNCHANGED << cfg, otherVars, released, limiterVars, runVars, dirVars >>

\* the leaf operation returns after its token scope
Finish(t) ==
    /\ Runnable(t)
    /\ task[t].pc = "exited"
    /\ LeafEnds(t, task[t], NoExc)
    /\ UNCHANGED << cfg, otherVars, released, limiterVars, runVars, dirVars >>

\* ------------------------------------------------------------ the tokens
\* CrawlToken._on_aenter registers its "Crawled" callback before it asks the
\* limiter for a slot; DownloadToken._on_aenter starts with the limiter
FirstStack(kind) == IF kind = "crawl" THEN << "after_desc" >> ELSE << >>

\* what CrawlToken._on_aenter pushes once limit_crawl() is entered
CrawlStack(st) == st \o << "limit_crawl", "crawl_bar" >>

\* limit_download() entered by hand, not through the token's stack
LimitStackUnregistered(st) == st

\* what DownloadToken._on_aenter pushes once limit_download() is entered
LimitStack(st) == st \o << "limit_download" >>

\* _on_aenter that shows the bar before it opens the sink
SinkStackBarFirst(st) == st \o << "download_bar", "fs_token" >>

\* what DownloadToken._on_aenter pushes once the sink is open
SinkStack(st) == st \o << "fs_token", "download_bar" >>

\* a sink closed by a plain callback, which never sees the exception
SinkExcDropped(e) == NoExc

\* the exception the FileSinkToken's __aexit__ is handed: the token entered it with
\* enter_async_context, so it sees the exception that ends the scope
SinkExc(e) == e

\* FileSink close: the staged bytes replace the destination
StagedContent(n) == IF n = TotalChunks THEN "new" ELSE "partial"

\* one entry of the token's stack is exited; w = [tf, df, loc, log]: the free
\* task slots, the free download slots, the local files and the entries exited
\* so far
ExitOne(item, e, dest, staged, w) ==
    CASE item = "limit_crawl" -> [w EXCEPT !.tf = @ + 1, !.log = Append(@, item)]
      [] item = "limit_download" ->
            [w EXCEPT !.df = @ + 1, !.tf = @ + 1, !.log = Append(@, item)]
      [] item = "fs_token" ->
            IF SinkExc(e) = NoExc
            THEN [w EXCEPT !.loc = [@ EXCEPT ![dest] = StagedContent(staged)],
                           !.log = Append(@, item)]
            ELSE [w EXCEPT !.log = Append(@, item)]
      [] OTHER -> [w EXCEPT !.log = Append(@, item)]

\* AsyncExitStack.__aexit__: the entries are exited last in, first out
RECURSIVE Unwind(_, _, _, _, _)
Unwind(st, e, dest, staged, w) ==
    IF st = << >> THEN w
    ELSE Unwind(SubSeq(st, 1, Len(st) - 1), e, dest, staged,
                ExitOne(st[Len(st)], e, dest, staged, w))

World == [tf |-> taskFree, df |-> dlFree, loc |-> local, log |-> << >>]

\* the scope of task t's token ends with exception e (NoExc: normally): the stack
\* is unwound from world w, then the leaf operation goes on or ends
EndScope(t, r, e, w0) ==
    LET w == Unwind(r.stack, e, DownloadDest(r.path), r.staged, w0)
    IN  /\ taskFree' = w.tf
        /\ dlFree' = w.df
        /\ local' = w.loc
        /\ released' = w.log
        /\ ScopeEnds(t, [r EXCEPT !.stack = << >>], e)

\* DownloadToken._on_aenter holds a task slot and asks for a download slot
ContinueDownload(t, r, tf, df) ==
    IF df = 0
    THEN /\ task' = [task EXCEPT ![t] = [r EXCEPT !.pc = "wait_dl"]]
         /\ taskFree' = tf
         /\ dlFree' = df
         /\ UNCHANGED << error_free, gather, local, released >>
    ELSE \E sinkOpens \in BOOLEAN :
           IF sinkOpens
           THEN /\ task' = [task EXCEPT ![t] =
                              [r EXCEPT !.pc = "body", !.staged = 0,
                                        !.stack = SinkStack(LimitStack(r.stack))]]
                /\ taskFree' = tf
                /\ dlFree' = df - 1
                /\ UNCHANGED << error_free, gather, local, released >>
           ELSE \* entering the FileSinkToken fails
                EndScope(t, [r EXCEPT !.stack = LimitStack(r.stack)], "OutputDirError",
                         [tf |-> tf, df |-> df - 1, loc |-> local, log |-> << >>])

\* CrawlToken._on_aenter that shows its bar without entering limit_crawl()
ContinueEnterUnlimited(t, r, tf, df) ==
    IF r.kind = "crawl"
    THEN /\ task' = [task EXCEPT ![t] = [r EXCEPT !.pc = "body",
                                                  !.stack = r.stack \o << "crawl_bar" >>]]
         /\ UNCHANGED << limiterVars, error_free, gather, local, released >>
    ELSE IF tf = 0
    THEN /\ task' = [task EXCEPT ![t] = [r EXCEPT !.pc = "wait_task"]]
         /\ UNCHANGED << limiterVars, error_free, gather, local, released >>
    ELSE ContinueDownload(t, r, tf - 1, df)

\* _on_aenter asks the limiter for a task slot
ContinueEnter(t, r, tf, df) ==
    IF tf = 0
    THEN /\ task' = [task EXCEPT ![t] = [r EXCEPT !.pc = "wait_task"]]
         /\ UNCHANGED << limiterVars, error_free, gather, local, released >>
    ELSE IF r.kind = "crawl"
    THEN /\ task' = [task EXCEPT ![t] = [r EXCEPT !.pc = "body",
                                                  !.stack = CrawlStack(r.stack)]]
         /\ taskFree' = tf - 1
         /\ dlFree' = df
         /\ UNCHANGED << error_free, gather, local, released >>
    ELSE ContinueDownload(t, r, tf - 1, df)

\* ReusableAsyncContextManager.__aenter__ on an inactive token
Enter(t) ==
    /\ Runnable(t)
    /\ task[t].pc \in {"token", "exited"}
    /\ ~task[t].active
    /\ task[t].entries < MaxEntries
    /\ ContinueEnter(t, [task[t] EXCEPT !.active = TRUE, !.entries = @ + 1,
                                        !.stack = FirstStack(task[t].kind)],
                     taskFree, dlFree)
    /\ UNCHANGED << cfg, otherVars, runVars, report, conflicts >>

\* Limiter: a task that waits for a task slot gets one
AcquireTask(t) ==
    /\ Runnable(t)
    /\ task[t].pc = "wait_task"
    /\ taskFree > 0
    /\ ContinueEnter(t, task[t], taskFree, dlFree)
    /\ UNCHANGED << cfg, otherVars, runVars, report, conflicts >>

\* Limiter: a task that waits for a download slot gets one
AcquireDownload(t) ==
    /\ Runnable(t)
    /\ task[t].pc = "wait_dl"
    /\ dlFree > 0
    /\ ContinueDownload(t, task[t], taskFree, dlFree)
    /\ UNCHANGED << cfg, otherVars, runVars, report, conflicts >>

\* the body writes one chunk to the sink
Write(t) ==
    /\ Runnable(t)
    /\ task[t].pc = "body"
    /\ task[t].kind = "download"
    /\ task[t].staged < TotalChunks
    /\ task' = [task EXCEPT ![t] = [@ EXCEPT !.staged = @ + 1]]
    /\ UNCHANGED << cfg, otherVars, released, limiterVars, runVars, dirVars, error_free, gather >>

\* the body raises
BodyFail(t) ==
    /\ Runnable(t)
    /\ task[t].pc = "body"
    /\ \E e \in BodyExceptions : EndScope(t, task[t], e, World)
    /\ UNCHANGED << cfg, otherVars, runVars, report, conflicts >>

\* __aenter__ without the check of _active
EnterRejectedNever(active) == FALSE

\* ReusableAsyncContextManager.__aenter__: is the entry refused as a usage error
EnterRejected(active) == active

\* the body enters the token it is in: __aenter__ raises the usage error before
\* _on_aenter runs
NestedEnter(t) ==
    /\ Runnable(t)
    /\ task[t].pc = "body"
    /\ IF EnterRejected(task[t].active)
       THEN /\ task' = [task EXCEPT ![t] = [@ EXCEPT !.pc = "rejected"]]
            /\ UNCHANGED << limiterVars, error_free, gather, local, released >>
       ELSE ContinueEnter(t, task[t], taskFree, dlFree)
    /\ UNCHANGED << cfg, otherVars, runVars, report, conflicts >>

\* the usage error leaves the body and ends the scope of the active entry
RejectedRaises(t) ==
    /\ Runnable(t)
    /\ task[t].pc = "rejected"
    /\ EndScope(t, task[t], "RuntimeError", World)
    /\ UNCHANGED << cfg, otherVars, runVars, report, conflicts >>

\* the body is left normally; a download has written all of its chunks
BodyExit(t) ==
    /\ Runnable(t)
    /\ task[t].pc = "body"
    /\ task[t].kind = "download" => task[t].staged = TotalChunks
    /\ EndScope(t, task[t], NoExc, World)
    /\ UNCHANGED << cfg, otherVars, runVars, report, conflicts >>

\* the event loop resumes a task whose cancellation was requested: CancelledError
\* is thrown at the await the task is suspended in
DeliverCancel(t) ==
    /\ Started
    /\ task[t].cancelReq
    /\ task[t].pc # "done"
    /\ LET r == [task[t] EXCEPT !.cancelReq = FALSE]
       IN  CASE task[t].pc = "new" ->
                  \* the coroutine never ran, so neither did the wrapper
                  /\ task' = [task EXCEPT ![t] = [r EXCEPT !.pc = "done",
                                                           !.exc = "CancelledError"]]
                  /\ UNCHANGED << error_free, gather, limiterVars, local, released >>
             [] task[t].pc \in {"prompt", "token", "exited"} ->
                  /\ LeafEnds(t, r, "CancelledError")
                  /\ UNCHANGED << limiterVars, local, released >>
             [] task[t].pc = "wait_dl" ->
                  \* limit_download gives back the task slot it already holds
                  EndScope(t, r, "CancelledError", [World EXCEPT !.tf = @ + 1])
             [] OTHER ->
                  EndScope(t, r, "CancelledError", World)
    /\ UNCHANGED << cfg, otherVars, runVars, report, conflicts >>

\* ------------------------------------------------------------------ Next
Next ==
    \/ Prepare
    \/ LoadPrevReport
    \/ RunStart
    \/ GatherReturn
    \/ GatherRaise
    \/ Cleanup
    \/ StoreReport
    \/ \E t \in Tasks : DecideCrawl(t)
    \/ \E t \in Tasks : DecideDownload(t)
    \/ \E t \in Tasks : PromptAnswer(t)
    \/ \E t \in Tasks : LeafFail(t)
    \/ \E t \in Tasks : Finish(t)
    \/ \E t \in Tasks : Enter(t)
    \/ \E t \in Tasks : AcquireTask(t)
    \/ \E t \in Tasks : AcquireDownload(t)
    \/ \E t \in Tasks : Write(t)
    \/ \E t \in Tasks : BodyFail(t)
    \/ \E t \in Tasks : NestedEnter(t)
    \/ \E t \in Tasks : RejectedRaises(t)
    \/ \E t \in Tasks : BodyExit(t)
    \/ \E t \in Tasks : DeliverCancel(t)

Spec == Init /\ [][Next]_vars

\* ------------------------------------------------- run after run
\* the remote: what each leaf operation of the strategy finds and downloads
Plans == [Tasks -> [path : Paths, mtime : Mtimes]]

\* a new Crawler is constructed on the same section and output directory, after
\* an error-free run; the persisted Report and the local files are what is left
NewRun ==
    /\ runpc = "done"
    /\ error_free
    /\ runNo < MaxRuns
    /\ runNo' = runNo + 1
    /\ runpc' = "start"
    /\ error_free' = TRUE
    /\ report' = EmptyReport
    /\ conflicts' = {}
    /\ prev_report' = EmptyReport
    /\ task' = [t \in Tasks |-> NewTask]
    /\ gather' = "idle"
    /\ cleanupRan' = FALSE
    /\ deleted' = {}
    /\ storeRan' = FALSE
    /\ taskFree' = cfg.tasks
    /\ dlFree' = cfg.downloads
    /\ released' = << >>
    /\ UNCHANGED << cfg, section, built, plan, authVars, stored, local >>

InitRuns ==
    /\ cfg \in Limits
    /\ taskFree = cfg.tasks
    /\ dlFree = cfg.downloads
    /\ section = NoSection
    /\ built = Built(0)
    /\ plan \in Plans
    /\ \E w \in Worlds \cup {FreshWorld} : stored = w.stored /\ local = w.local
    /\ InitRun
    /\ NoAuth

NextRuns ==
    \/ Prepare
    \/ LoadPrevReport
    \/ RunStart
    \/ GatherReturn
    \/ Cleanup
    \/ StoreReport
    \/ NewRun
    \/ \E t \in Tasks : PlannedDownload(t)
    \/ \E t \in Tasks : PromptAnswer(t)
    \/ \E t \in Tasks : Finish(t)
    \/ \E t \in Tasks : Enter(t)
    \/ \E t \in Tasks : AcquireTask(t)
    \/ \E t \in Tasks : AcquireDownload(t)
    \/ \E t \in Tasks : Write(t)
    \/ \E t \in Tasks : BodyExit(t)

SpecRuns == InitRuns /\ [][NextRuns]_vars

\* ------------------------------------------- construction from a section
InitConfig ==
    /\ section \in Sections
    /\ built = Pending
    /\ cfg = NoLimiter
    /\ taskFree = 0
    /\ dlFree = 0
    /\ plan = NoPlan
    /\ \E w \in Worlds : stored = w.stored /\ local = w.local
    /\ InitRun
    /\ NoAuth

NextConfig ==
    \/ Construct
    \/ Prepare
    \/ LoadPrevReport
    \/ RunStart

SpecConfig == InitConfig /\ [][NextConfig]_vars

\* ------------------------------------------------- SimpleAuthenticator
None == "None"
Values == {"username", "password"}
AuthCallers == 1..NumCallers

\* SimpleAuthSection.username() / password(): the option or None
AuthSections == [username : {None, "cfg_user"}, password : {None, "cfg_pass"}]

\* self.username and self.password in __init__ (lines 30, 31): the fields that
\* lines 27, 28 set are _username and _password, and SimpleAuthenticator defines
\* no attribute without the underscore, so these lookups yield what the class
\* inherits under that name, whatever the section holds; it is not None
InheritedUsername == "Authenticator.username"
InheritedPassword == "Authenticator.password"

\* SimpleAuthenticator.__init__
NewAuthenticator(sec) ==
    [ username |-> sec.username,
      password |-> sec.password,
      username_fixed |-> InheritedUsername # None,
      password_fixed |-> InheritedPassword # None ]

\* what the user types at the prompt
Typed(v) == IF v = "username" THEN "typed_user" ELSE "typed_pass"

IdleCaller == [pc |-> "idle", username |-> None, password |-> None, waited |-> FALSE]

\* credentials() that asks for the value without looking at it again
NeedsPromptAlways(value) == TRUE

\* credentials(), inside exclusive_output(): if self._username is None (line 38),
\* if self._password is None (line 43)
NeedsPrompt(value) == value = None

\* return self._username, self._password: leaves exclusive_output()
Return(c, a) ==
    /\ caller' = [caller EXCEPT ![c] = [@ EXCEPT !.pc = "returned",
                                                 !.username = a.username,
                                                 !.password = a.password]]
    /\ lock' = IF lock = c THEN 0 ELSE lock

\* credentials() from line 43 on, the authenticator being a
PasswordStep(c, a) ==
    IF NeedsPrompt(a.password)
    THEN /\ caller' = [caller EXCEPT ![c] = [@ EXCEPT !.pc = "ask_pass"]]
         /\ prompts' = [prompts EXCEPT !.password = @ + 1]
         /\ lock' = c
    ELSE /\ Return(c, a)
         /\ UNCHANGED prompts

\* await credentials(): both values are there, or the caller goes for
\* exclusive_output()
CredentialsCall(c) ==
    /\ caller[c].pc = "idle"
    /\ calls < MaxCalls
    /\ calls' = calls + 1
    /\ IF auth.username # None /\ auth.password # None
       THEN Return(c, auth)
       ELSE /\ caller' = [caller EXCEPT ![c] = [@ EXCEPT !.pc = "wait_lock"]]
            /\ UNCHANGED lock
    /\ UNCHANGED << crawlVars, authSection, auth, prompts, lastInv, stale >>

\* exclusive_output() is free: the caller enters it and runs up to its first
\* prompt, or through to the return
LockAcquired(c) ==
    /\ caller[c].pc = "wait_lock"
    /\ lock = 0
    /\ LET r == [caller EXCEPT ![c] = [@ EXCEPT !.waited = TRUE]]
       IN  IF NeedsPrompt(auth.username)
           THEN /\ caller' = [r EXCEPT ![c] = [@ EXCEPT !.pc = "ask_user"]]
                /\ prompts' = [prompts EXCEPT !.username = @ + 1]
                /\ lock' = c
           ELSE IF NeedsPrompt(auth.password)
           THEN /\ caller' = [r EXCEPT ![c] = [@ EXCEPT !.pc = "ask_pass"]]
                /\ prompts' = [prompts EXCEPT !.password = @ + 1]
                /\ lock' = c
           ELSE /\ caller' = [r EXCEPT ![c] = [@ EXCEPT !.pc = "returned",
                                                        !.username = auth.username,
                                                        !.password = auth.password]]
                /\ lock' = 0
                /\ UNCHANGED prompts
    /\ UNCHANGED << crawlVars, authSection, auth, calls, lastInv, stale >>

\* self._username = await ainput("Username: ") is resumed
UsernameEntered(c) ==
    /\ caller[c].pc = "ask_user"
    /\ LET a == [auth EXCEPT !.username = Typed("username")]
       IN  /\ auth' = a
           /\ PasswordStep(c, a)
    /\ stale' = stale \ {"username"}
    /\ UNCHANGED << crawlVars, authSection, calls, lastInv >>

\* self._password = await agetpass("Password: ") is resumed
PasswordEntered(c) ==
    /\ caller[c].pc = "ask_pass"
    /\ LET a == [auth EXCEPT !.password = Typed("password")]
       IN  /\ auth' = a
           /\ Return(c, a)
    /\ stale' = stale \ {"password"}
    /\ UNCHANGED << crawlVars, authSection, calls, prompts, lastInv >>

\* the task goes on with the pair it got; it may ask again
CallerDone(c) ==
    /\ caller[c].pc = "returned"
    /\ caller' = [caller EXCEPT ![c] = IdleCaller]
    /\ UNCHANGED << crawlVars, authSection, auth, lock, calls, prompts, lastInv, stale >>

\* the authenticator after the values in cleared are set to None
Cleared(a, cleared) ==
    [a EXCEPT !.username = IF "username" \in cleared THEN None ELSE @,
              !.password = IF "password" \in cleared THEN None ELSE @]

\* an invalidate call that asks for the values in asked: it raises AuthException
\* or clears; it is not a coroutine, any task may make it at any time
Invalidate(op, asked, raises, cleared) ==
    /\ lastInv' = [op |-> op, raised |-> raises,
                   username |-> auth.username, password |-> auth.password]
    /\ stale' = stale \cup asked
    /\ auth' = IF raises THEN auth ELSE Cleared(auth, cleared)
    /\ prompts' = IF raises THEN prompts
                  ELSE [v \in Values |-> IF v \in cleared THEN 0 ELSE prompts[v]]
    /\ UNCHANGED << crawlVars, authSection, lock, caller, calls >>

InvalidateCredentials ==
    Invalidate("credentials", Values,
               auth.username_fixed /\ auth.password_fixed,
               { v \in Values : \/ v = "username" /\ ~auth.username_fixed
                                \/ v = "password" /\ ~auth.password_fixed })

InvalidateUsername ==
    Invalidate("username", {"username"}, auth.username_fixed, {"username"})

InvalidatePassword ==
    Invalidate("password", {"password"}, auth.password_fixed, {"password"})

\* the authenticator on its own; no crawler is constructed
InitAuth ==
    /\ authSection \in AuthSections
    /\ auth = NewAuthenticator(authSection)
    /\ lock = 0
    /\ caller = [c \in AuthCallers |-> IdleCaller]
    /\ calls = 0
    /\ prompts = [v \in Values |-> 0]
    /\ lastInv = [op |-> "-", raised |-> FALSE,
                  username |-> authSection.username, password |-> authSection.password]
    /\ stale = {}
    /\ cfg = NoLimiter
    /\ taskFree = 0
    /\ dlFree = 0
    /\ section = NoSection
    /\ built = Pending
    /\ plan = NoPlan
    /\ stored = FreshWorld.stored
    /\ local = FreshWorld.local
    /\ InitRun

NextAuth ==
    \/ \E c \in AuthCallers : CredentialsCall(c)
    \/ \E c \in AuthCallers : LockAcquired(c)
    \/ \E c \in AuthCallers : UsernameEntered(c)
    \/ \E c \in AuthCallers : PasswordEntered(c)
    \/ \E c \in AuthCallers : CallerDone(c)
    \/ InvalidateCredentials
    \/ InvalidateUsername
    \/ InvalidatePassword

SpecAuth == InitAuth /\ [][NextAuth]_vars

\* ================================================================ claims
IsDone(t) == task[t].pc = "done"
Caught(t) == IsDone(t) /\ task[t].exc \in Recoverable
InBody(t) == task[t].pc \in {"body", "rejected"}

\* C1: OutputDirectory.cleanup() is executed only while error_free is true, and
\* once the wrapper has caught a recoverable failure the run deletes no local
\* file: cleanup is not executed and every file the previous Report lists stays.
C1_CleanupGated ==
    /\ cleanupRan => error_free
    /\ (\E t \in Tasks : Caught(t)) =>
          /\ ~cleanupRan
          /\ deleted = {}
          /\ \A p \in Paths : prev_report[p] # NoEntry => local[p] # "absent"

\* a finished run that caught a recoverable failure while the previous Report
\* lists a path the current Report lacks
C1_Witness ==
    /\ runpc = "done"
    /\ \E t \in Tasks : Caught(t)
    /\ Stale # {}
    /\ \E p \in Stale : local[p] = "old"

\* C2 as stated: every run that reached the strategy's entry point and ended has
\* executed store_report(), also when _run() aborted with a fatal failure.
C2_StoreAlways ==
    (Started /\ runpc \in {"done", "aborted"}) => storeRan

\* C2 as amended: a run whose _run() returned ends with store_report() executed,
\* with or without recoverable failures; a run whose _run() raised ends without
\* cleanup and without store_report(), the persisted Report left as it was loaded.
C2_StoreUnlessAborted ==
    /\ runpc = "done" => (storeRan /\ stored = report)
    /\ runpc = "aborted" => (~storeRan /\ ~cleanupRan /\ stored = prev_report)

\* a finished run with a recoverable failure that stored its Report
C2_Witness ==
    /\ runpc = "done"
    /\ storeRan
    /\ ~error_free
    /\ \E p \in Paths : report[p] # NoEntry

\* C3: never more than max_concurrent_tasks tokens are active at once, and never
\* more than max_concurrent_downloads DownloadTokens.
C3_ConcurrencyBound ==
    /\ Cardinality({ t \in Tasks : InBody(t) }) <= cfg.tasks
    /\ Cardinality({ t \in Tasks : InBody(t) /\ task[t].kind = "download" }) <= cfg.downloads

\* a DownloadToken is active and a second download waits for the download slot
\* although a task slot was free for it
C3_Witness ==
    /\ cfg.tasks = 2
    /\ cfg.downloads = 1
    /\ \E t1, t2 \in Tasks :
          /\ InBody(t1) /\ task[t1].kind = "download"
          /\ task[t2].pc = "wait_dl"

\* the download() calls whose path transforms to destination d
Calls(d) == { t \in Tasks : task[t].kind = "download" /\ Transform(task[t].path) = d }
TokenCalls(d) == { t \in Calls(d) : task[t].res = "token" }
DupCalls(d) == { t \in Calls(d) : task[t].res = "dup" }
NoneCalls(d) == { t \in Calls(d) : task[t].res = "none" }
PendingCalls(d) == { t \in Calls(d) : task[t].res = "prompt" }

\* C4 as stated: per destination at most one download() call returns a token and
\* every other call returns none.
C4_RepeatedCallReturnsNone ==
    \A d \in Paths :
        /\ Cardinality(TokenCalls(d)) <= 1
        /\ Cardinality(NoneCalls(d)) >= Cardinality(Calls(d) \ PendingCalls(d)) - 1

\* C4 as amended: per destination at most one download() call returns a token;
\* every call after the first one is ended by MarkDuplicateError, which leaves
\* download() and is caught by the wrapper as a recoverable failure, so the call
\* yields no token; the Report has the destination's entry exactly when it was
\* asked for.
C4_OneTokenPerDestination ==
    \A d \in Paths :
        /\ Cardinality(TokenCalls(d)) <= 1
        /\ Calls(d) # {} => Cardinality(DupCalls(d)) = Cardinality(Calls(d)) - 1
        /\ (Calls(d) # {}) <=> (report[d] # NoEntry)
        /\ \A t \in DupCalls(d) :
              /\ IsDone(t)
              /\ task[t].exc = "MarkDuplicateError"
              /\ ~error_free

\* two different paths with the same destination: one got the token, the other
\* the duplicate marking
C4_Witness ==
    \E t1, t2 \in Tasks :
        /\ task[t1].kind = "download" /\ task[t1].path = "a" /\ task[t1].res = "token"
        /\ task[t2].kind = "download" /\ task[t2].path = "c" /\ task[t2].res = "dup"
        /\ report["c"] # NoEntry

\* C5 as stated: when gather raises, no sibling task is still running.
C5_NoSiblingLeft ==
    gather = "raised" => AllDone

\* C5 as amended: when gather raises, every sibling that has not finished has its
\* cancellation requested; gather does not wait for it to be delivered, so such a
\* sibling is still suspended where it was and unwinds once it is resumed.
C5_SiblingsCancelRequested ==
    /\ gather = "raised" => \A t \in Tasks : IsDone(t) \/ task[t].cancelReq
    /\ \A t \in Tasks : task[t].cancelReq => (gather = "raised" /\ ~IsDone(t))
    /\ gather \in {"failed", "raised"} =>
          \E t \in Tasks : IsDone(t) /\ WrapperReraises(task[t].exc)

\* gather has raised while a sibling still sits in the body of its token
C5_Witness ==
    /\ gather = "raised"
    /\ runpc = "aborted"
    /\ \E t \in Tasks : task[t].cancelReq /\ task[t].pc = "body"

\* the slots a task's token (or the limiter on its behalf) holds
HasLimiter(t) ==
    \E i \in 1..Len(task[t].stack) : task[t].stack[i] \in {"limit_crawl", "limit_download"}
HoldsTaskSlot(t) == task[t].pc = "wait_dl" \/ HasLimiter(t)
HoldsDownloadSlot(t) ==
    \E i \in 1..Len(task[t].stack) : task[t].stack[i] = "limit_download"

\* C6: no slot leaks: every slot missing from a pool is held by a token that is
\* inside its scope, so once no token is inside its scope both pools are full.
C6_NoSlotLeak ==
    /\ taskFree + Cardinality({ t \in Tasks : HoldsTaskSlot(t) }) = cfg.tasks
    /\ dlFree + Cardinality({ t \in Tasks : HoldsDownloadSlot(t) }) = cfg.downloads
    /\ \A t \in Tasks : HoldsTaskSlot(t) => task[t].pc \in {"wait_dl", "body", "rejected"}
    /\ (\A t \in Tasks : task[t].pc \notin {"wait_dl", "body", "rejected"}) =>
          (taskFree = cfg.tasks /\ dlFree = cfg.downloads)

\* every leaf operation is over, one DownloadToken ended by cancellation and one
\* token by a failure, and both pools are full
C6_Witness ==
    /\ AllDone
    /\ \E t1, t2 \in Tasks :
          /\ task[t1].kind = "download" /\ task[t1].res = "token"
          /\ task[t1].exc = "CancelledError"
          /\ task[t2].res = "token" /\ task[t2].exc = "CrawlError"
    /\ taskFree = cfg.tasks
    /\ dlFree = cfg.downloads

\* C7: a destination never holds partial content, and it changes to new content
\* only in the step in which a DownloadToken that has staged every chunk leaves
\* its scope normally (the only other change is cleanup deleting it).
C7_NoPartialFile == \A p \in Paths : local[p] # "partial"

C7_CommitStep ==
    \A p \in Paths :
        local'[p] # local[p] =>
            \/ runpc = "cleanup" /\ local'[p] = "absent"
            \/ /\ local'[p] = "new"
               /\ \E t \in Tasks :
                     /\ task[t].pc = "body"
                     /\ task[t].kind = "download"
                     /\ Transform(task[t].path) = p
                     /\ task[t].staged = TotalChunks
                     /\ task'[t].pc = "exited"

C7_AtomicCommit == []C7_NoPartialFile /\ [][C7_CommitStep]_vars

\* a DownloadToken was ended by a failure of its body and its destination still
\* has the content it had before
C7_Witness ==
    \E t \in Tasks :
        /\ IsDone(t)
        /\ task[t].kind = "download"
        /\ task[t].res = "token"
        /\ task[t].exc = "CrawlWarning"
        /\ local[Transform(task[t].path)] = "old"

\* C8: an entry into a token that is active is refused without touching the
\* limiter or the active entry, no token ever holds a second limiter entry, and
\* an entry into a token that has exited is never refused.
C8_Refused ==
    \A t \in Tasks :
        (task[t].pc # "rejected" /\ task'[t].pc = "rejected") =>
            /\ task[t].pc = "body"
            /\ task[t].active /\ task'[t].active
            /\ task'[t].stack = task[t].stack
            /\ taskFree' = taskFree
            /\ dlFree' = dlFree

C8_Reentered ==
    \A t \in Tasks :
        (task[t].pc = "exited" /\ task'[t].entries = task[t].entries + 1) =>
            /\ task'[t].active
            /\ task'[t].pc \in {"wait_task", "wait_dl", "body"}

C8_SingleEntry ==
    \A t \in Tasks :
        /\ Cardinality({ i \in 1..Len(task[t].stack) :
                           task[t].stack[i] \in {"limit_crawl", "limit_download"} }) <= 1
        /\ InBody(t) => task[t].active

C8_TokenLifecycle == []C8_SingleEntry /\ [][C8_Refused /\ C8_Reentered]_vars

\* a token that was entered, exited and entered again refuses an entry while it
\* is active
C8_Witness ==
    \E t \in Tasks : task[t].pc = "rejected" /\ task[t].entries = 2

\* C9: an excluded path gets none from crawl() and from download(), whatever the
\* other arguments, and nothing is raised; any other path gets a CrawlToken from
\* crawl().
C9_Exclusion ==
    \A t \in Tasks :
        task[t].kind # "-" =>
            /\ Transform(task[t].path) = Excluded =>
                  (task[t].res = "none" /\ IsDone(t) /\ task[t].exc = NoExc)
            /\ (task[t].kind = "crawl" /\ Transform(task[t].path) # Excluded) =>
                  task[t].res = "token"

\* download() of the excluded path returned none and crawl() of another path
\* returned a token
C9_Witness ==
    \E t1, t2 \in Tasks :
        /\ task[t1].kind = "download" /\ task[t1].path = "x" /\ task[t1].res = "none"
        /\ task[t2].kind = "crawl" /\ task[t2].path = "a" /\ task[t2].res = "token"
        /\ task[t2].pc = "body"

\* C10: a recoverable failure of a wrapped leaf operation sets error_free to
\* false and stays inside the wrapper: gather fails and run() aborts only on a
\* failure the wrapper re-raises, and a run whose leaf operations all ended with
\* nothing worse than a recoverable failure is never aborted and gets past _run()
\* only with every leaf operation executed.
C10_RecoverableContinues ==
    /\ (\E t \in Tasks : Caught(t)) => ~error_free
    /\ gather \in {"failed", "raised"} =>
          \E t \in Tasks : IsDone(t) /\ task[t].exc \in Fatal
    /\ (AllDone /\ \A t \in Tasks : task[t].exc \in Recoverable \cup {NoExc}) =>
          /\ gather \in {"pending", "returned"}
          /\ runpc \in {"running", "cleanup", "store", "done"}
    /\ runpc \in {"cleanup", "store", "done"} =>
          (AllDone /\ \A t \in Tasks : task[t].exc \in Recoverable \cup {NoExc})

\* run() completed although one leaf operation failed with a CrawlWarning, and
\* another leaf operation went through its download
C10_Witness ==
    /\ runpc = "done"
    /\ \E t1, t2 \in Tasks :
          /\ task[t1].exc = "CrawlWarning"
          /\ task[t2].exc = NoExc /\ task[t2].kind = "download" /\ task[t2].res = "token"
          /\ local[Transform(task[t2].path)] = "new"

\* C11: a wrapped leaf operation that ends with a failure outside the recoverable
\* set (CrawlError, the usage error, cancellation) sets error_free to false and
\* the failure leaves the wrapper: gather fails in that very step unless it has
\* failed already; a run with such a failure never gets to cleanup or to
\* store_report().
C11_FatalState ==
    \A t \in Tasks :
        (IsDone(t) /\ task[t].exc \in Fatal) =>
            /\ ~error_free
            /\ gather \in {"failed", "raised"}
            /\ runpc \in {"running", "aborted"}
            /\ ~cleanupRan
            /\ ~storeRan

C11_FatalStep ==
    \A t \in Tasks :
        (~IsDone(t) /\ task'[t].pc = "done" /\ task'[t].exc \in Fatal) =>
            /\ ~error_free'
            /\ gather = "pending" => gather' = "failed"
            /\ gather # "pending" => gather' = gather

C11_FatalReraised == []C11_FatalState /\ [][C11_FatalStep]_vars

\* run() was aborted by a CrawlError raised in the body of a token while the
\* sibling, cancelled inside its own token, has ended with the cancellation
C11_Witness ==
    /\ runpc = "aborted"
    /\ ~error_free
    /\ \E t1, t2 \in Tasks :
          /\ IsDone(t1) /\ task[t1].exc = "CrawlError" /\ task[t1].res = "token"
          /\ IsDone(t2) /\ task[t2].exc = "CancelledError" /\ task[t2].kind = "crawl"
          /\ task[t2].res = "token"

\* C16: the strategy's entry point starts only after prepare() and
\* load_prev_report() are through, so from then on the previous Report is the
\* persisted one; cleanup and store_report() come only after the entry point
\* returned with every leaf operation over; store_report() is the last step, after
\* the cleanup decision, so what cleanup deletes is what the previous run's Report
\* lists and the current Report lacks.
C16_RunOrder ==
    /\ Started => runpc \in {"running", "cleanup", "store", "done", "aborted"}
    /\ (Started /\ ~storeRan) => prev_report = stored
    /\ runpc \in {"cleanup", "store", "done"} => (gather = "returned" /\ AllDone)
    /\ cleanupRan => runpc \in {"store", "done"}
    /\ storeRan => (runpc = "done" /\ stored = report)
    /\ deleted \subseteq { p \in Paths : prev_report[p] # NoEntry /\ report[p] = NoEntry }

\* a finished error-free run whose cleanup deleted a file of the previous run
\* and whose stored Report differs from the one it had loaded
C16_Witness ==
    /\ runpc = "done"
    /\ cleanupRan
    /\ storeRan
    /\ deleted # {}
    /\ stored # prev_report
    /\ \E p \in Paths : report[p] # NoEntry

\* C18: error_free is true until the strategy starts, it is false exactly when
\* some wrapped leaf operation has ended with an exception (recoverable or not),
\* it turns false only in a step in which a leaf operation ends with an exception
\* of its own (a cancellation always follows a sibling's failure), and no step
\* turns it true again; so cleanup only runs when no leaf operation has failed.
C18_FlagState ==
    /\ ~Started => error_free
    /\ error_free <=> (\A t \in Tasks : task[t].exc = NoExc)
    /\ cleanupRan => (\A t \in Tasks : task[t].exc = NoExc)

C18_FlagStep ==
    /\ error_free' => error_free
    /\ (error_free /\ ~error_free') =>
          \E t \in Tasks : /\ ~IsDone(t)
                            /\ task'[t].pc = "done"
                            /\ task'[t].exc \notin {NoExc, "CancelledError"}
    /\ \A t \in Tasks :
          (~IsDone(t) /\ task'[t].pc = "done" /\ task'[t].exc # NoExc) => ~error_free'

C18_ErrorFreeMonotone == []C18_FlagState /\ [][C18_FlagStep]_vars

\* run() ended with error_free false and without cleanup: one leaf operation
\* failed to open its sink, the other one crawled without a failure
C18_Witness ==
    /\ runpc = "done"
    /\ ~error_free
    /\ ~cleanupRan
    /\ \E t1, t2 \in Tasks :
          /\ task[t1].exc = "OutputDirError" /\ task[t1].res = "token"
          /\ task[t2].exc = NoExc /\ task[t2].kind = "crawl" /\ task[t2].res = "token"

\* C20: download() of an excluded path changes nothing but the caller: the
\* Report, the conflict markings, the local files, the limiter and error_free
\* stay as they are and nothing is raised; crawl() changes neither the Report nor
\* the limiter, and a CrawlToken that was handed out but not entered holds no
\* slot.
C20_DecideStep ==
    \A t \in Tasks :
        /\ (task[t].pc = "new" /\ task'[t].kind = "download"
               /\ Transform(task'[t].path) = Excluded) =>
              /\ report' = report
              /\ conflicts' = conflicts
              /\ local' = local
              /\ limiterVars' = limiterVars
              /\ error_free' = error_free
              /\ gather' = gather
              /\ task'[t].res = "none"
              /\ task'[t].exc = NoExc
        /\ (task[t].pc = "new" /\ task'[t].kind = "crawl") =>
              /\ report' = report
              /\ conflicts' = conflicts
              /\ local' = local
              /\ limiterVars' = limiterVars
              /\ error_free' = error_free
              /\ task'[t].stack = << >>

C20_TokenState ==
    \A t \in Tasks :
        /\ task[t].pc = "token" => (task[t].stack = << >> /\ ~HoldsTaskSlot(t))
        /\ (task[t].kind = "download" /\ Transform(task[t].path) = Excluded) =>
              report[task[t].path] = NoEntry

C20_Frame == []C20_TokenState /\ [][C20_DecideStep]_vars

\* download() of the excluded path has returned, the Report is empty and
\* error_free still true, while a CrawlToken is handed out, not entered, and the
\* task pool is full
C20_Witness ==
    /\ error_free
    /\ report = EmptyReport
    /\ taskFree = cfg.tasks
    /\ \E t1, t2 \in Tasks :
          /\ task[t1].kind = "download" /\ task[t1].path = "x" /\ IsDone(t1)
          /\ task[t2].kind = "crawl" /\ task[t2].pc = "token"

\* the stack entries by what they hold
LimiterEntries == {"limit_crawl", "limit_download"}
BarEntries == {"crawl_bar", "download_bar"}

RECURSIVE Reverse(_)
Reverse(sq) == IF sq = << >> THEN << >> ELSE Append(Reverse(Tail(sq)), Head(sq))

\* C17: in a token's stack the limiter entry lies below the sink and the sink
\* below the progress bar, so a token whose sink is open or whose bar is shown
\* holds its limiter slots; a download that waits for its download slot holds the
\* task slot and nothing else; and a scope that ends exits its entries in the
\* reverse of the order in which they were entered.
C17_StackOrder ==
    \A t \in Tasks :
        LET st == task[t].stack
        IN  /\ \A i, j \in 1..Len(st) :
                  /\ (st[i] \in LimiterEntries /\ st[j] \in BarEntries \cup {"fs_token"})
                        => i < j
                  /\ (st[i] = "fs_token" /\ st[j] \in BarEntries) => i < j
            /\ (\E j \in 1..Len(st) : st[j] \in BarEntries \cup {"fs_token"})
                  => HasLimiter(t)
            /\ task[t].staged >= 0 => (HoldsDownloadSlot(t) /\ HoldsTaskSlot(t))
            /\ task[t].pc = "wait_dl" =>
                  (HoldsTaskSlot(t) /\ ~HoldsDownloadSlot(t) /\ st = << >>)

C17_ReleaseStep ==
    \A t \in Tasks :
        (task[t].stack # << >> /\ task'[t].stack = << >>) =>
            released' = Reverse(task[t].stack)

C17_TokenOrder == []C17_StackOrder /\ [][C17_ReleaseStep]_vars

\* a DownloadToken has left its scope, bar first, then the sink, then the
\* limiter, while a CrawlToken is in its body
C17_Witness ==
    /\ released = << "download_bar", "fs_token", "limit_download" >>
    /\ \E t1, t2 \in Tasks :
          /\ task[t1].kind = "download" /\ task[t1].pc = "exited"
          /\ task[t2].kind = "crawl" /\ task[t2].pc = "body"
          /\ task[t2].stack = << "after_desc", "limit_crawl", "crawl_bar" >>

\* the section's limiter options as the constraints read them
EffectiveTasks == GetOption(section.max_concurrent_tasks, 1)
EffectiveDownloads == GetOption(section.max_concurrent_downloads, EffectiveTasks)
EffectiveDelay == GetOption(section.delay_between_tasks, 0)
Acceptable ==
    /\ EffectiveTasks > 0
    /\ 0 < EffectiveDownloads
    /\ EffectiveDownloads <= EffectiveTasks
    /\ EffectiveDelay >= 0

\* C14: the construction builds the Limiter exactly for the sections with
\* max_concurrent_tasks > 0, 0 < max_concurrent_downloads <= max_concurrent_tasks
\* (an absent max_concurrent_downloads counting as max_concurrent_tasks) and
\* delay_between_tasks >= 0; any other section is rejected with the offending
\* option and the run never starts; a Limiter that was built has
\* 1 <= N_d <= N_t and D >= 0, with the values of the section.
C14_ConfigValidated ==
    /\ built.state = "built" =>
          /\ Acceptable
          /\ cfg.tasks = EffectiveTasks
          /\ cfg.downloads = EffectiveDownloads
          /\ built.task_delay = EffectiveDelay
          /\ 1 <= cfg.downloads /\ cfg.downloads <= cfg.tasks
          /\ built.task_delay >= 0
          /\ taskFree = cfg.tasks /\ dlFree = cfg.downloads
    /\ built.state = "error" =>
          /\ ~Acceptable
          /\ built.option \in {"max_concurrent_tasks", "max_concurrent_downloads",
                                "delay_between_tasks"}
          /\ cfg = NoLimiter
    /\ built.state # "built" => runpc = "start"

\* a section without max_concurrent_tasks (so 1) and with
\* max_concurrent_downloads = 2 was rejected
C14_Witness ==
    /\ built.state = "error"
    /\ built.option = "max_concurrent_downloads"
    /\ section.max_concurrent_tasks = Absent
    /\ section.max_concurrent_downloads = 2
    /\ section.delay_between_tasks = 0


\* C15: a run that follows an error-free run on the same remote, with the
\* redownload policy left at never-smart, approves no download: every download()
\* returns none, nothing fails, no local file changes or is deleted, and the
\* Report the run stores is the Report it loaded, i.e. the one the run before
\* stored.
C15_SecondRunStep ==
    runNo >= 2 => local' = local

C15_SecondRunState ==
    runNo >= 2 =>
        /\ \A t \in Tasks : task[t].res \in {"-", "none"} /\ task[t].exc = NoExc
        /\ error_free
        /\ deleted = {}
        /\ AllDone => report = stored
        /\ runpc = "done" => (storeRan /\ stored = prev_report /\ stored = report)

C12_RaisesIffFixed ==
    /\ lastInv.op = "username" => (lastInv.raised <=> authSection.username # None)
    /\ lastInv.op = "password" => (lastInv.raised <=> authSection.password # None)
    /\ lastInv.op = "credentials" =>
          ((authSection.username # None \/ authSection.password # None) => lastInv.raised)
    /\ authSection.username # None => auth.username = authSection.username
    /\ authSection.password # None => auth.password = authSection.password

\* C13 as stated: a value the section holds is never missing, hence never
\* prompted for, and a value the section does not hold whose invalidation was
\* asked for after it was entered is missing, so that the next credentials() call
\* prompts for it.
C13_RepromptAfterInvalidate ==
    \A v \in Values :
        /\ authSection[v] # None => ~NeedsPrompt(auth[v])
        /\ (authSection[v] = None /\ v \in stale) => NeedsPrompt(auth[v])

====
